---- MODULE Spec2Model ----
(***************************************************************************)
(* Model of seo_minigui_gemini_strict_validated.py: the text helpers, the  *)
(* Gemini call wrapper, the Trends scorer and the MiniGUI handlers.        *)
(*                                                                         *)
(* A Python str is a sequence of Unicode code points (naturals); "" is     *)
(* <<>>.  The GUI's Vietnamese status and dialog texts are written as      *)
(* ASCII transliterations.                                                 *)
(***************************************************************************)
EXTENDS Integers, Sequences, FiniteSets, TLC

VARIABLES
    pc,               \* position of on_generate: idle, gemini, trends, returned
    genai_installed,  \* whether "import google.generativeai" succeeds
    name_var,         \* tk.StringVar of the product-name entry
    meta_var,         \* tk.StringVar outputs
    slug_var,
    key_var,
    status,           \* tk.StringVar of the status line
    req,              \* the widget values on_generate read when it started
    text,             \* call_gemini: raw text the service returned
    warn,             \* on_generate: out.get("warning")
    df,               \* trends_score_single: the series the service returned
    sc,               \* on_generate: the dict trends_score_single returned
    dialog,           \* the messagebox the running handler has shown
    gemini_calls,     \* model.generate_content calls of the current handler run
    trends_calls,     \* pytrends calls of the current handler run
    arg,              \* pure-function harness: the input string
    step,             \* pure-function harness: how often the function ran
    val               \* pure-function harness: the results so far

vars == <<pc, genai_installed, name_var, meta_var, slug_var, key_var, status,
          req, text, warn, df, sc, dialog, gemini_calls, trends_calls,
          arg, step, val>>

(***************************************************************************)
(* Characters                                                              *)
(***************************************************************************)
SP == 32
HYPHEN == 45
NEWLINE == 10
ELLIPSIS == 8230

\* str.isspace / regex \s for a str pattern
WhitespaceChars ==
    {9, 10, 11, 12, 13, 28, 29, 30, 31, 32, 133, 160, 5760} \cup (8192..8202)
        \cup {8232, 8233, 8239, 8287, 12288}

IsSpace(c) == c \in WhitespaceChars

\* str.lower() on one code point, for ASCII, Latin-1 and the Vietnamese
\* letters (the code points the model's alphabets are drawn from)
Lower(c) ==
    IF c \in 65..90 THEN c + 32
    ELSE IF c \in 192..222 /\ c # 215 THEN c + 32
    ELSE IF c \in {258, 272, 296, 360, 416, 431} THEN c + 1
    ELSE IF c \in 7840..7929 /\ c % 2 = 0 THEN c + 1
    ELSE c

\* the str.maketrans table of strip_vi_diacritics
TransTable(c) ==
    IF c \in {224, 225, 226, 227, 259, 7841, 7843, 7845, 7847, 7849, 7851,
              7853, 7855, 7857, 7859, 7861, 7863} THEN 97
    ELSE IF c \in {232, 233, 234, 7865, 7867, 7869, 7871, 7873, 7875, 7877,
                   7879} THEN 101
    ELSE IF c \in {236, 237, 297, 7881, 7883} THEN 105
    ELSE IF c \in {242, 243, 244, 245, 417, 7885, 7887, 7889, 7891, 7893,
                   7895, 7897, 7899, 7901, 7903, 7905, 7907} THEN 111
    ELSE IF c \in {249, 250, 361, 432, 7909, 7911, 7913, 7915, 7917, 7919,
                   7921} THEN 117
    ELSE IF c \in {253, 7923, 7925, 7927, 7929} THEN 121
    ELSE IF c = 273 THEN 100
    ELSE c

\* [a-z0-9]
IsSlugChar(c) == c \in 97..122 \/ c \in 48..57

\* [A-Za-z\u00C0-\u1EF9]
IsLetter(c) == c \in 65..90 \/ c \in 97..122 \/ c \in 192..7929

\* [A-Za-z\u00C0-\u1EF90-9]
IsWordChar(c) == IsLetter(c) \/ c \in 48..57

\* the character class of the vowels regex in looks_like_gibberish
VowelChars ==
    {65, 69, 73, 79, 85, 97, 101, 105, 111, 117, 224, 225, 226, 227, 232, 233,
     234, 236, 237, 242, 243, 244, 245, 249, 250, 253, 259, 297, 361, 417, 432,
     7841, 7843, 7845, 7847, 7849, 7851, 7853, 7855, 7857, 7859, 7861, 7863,
     7865, 7867, 7869, 7871, 7873, 7875, 7877, 7879, 7881, 7883, 7885, 7887,
     7889, 7891, 7893, 7895, 7897, 7899, 7901, 7903, 7905, 7907, 7909, 7911,
     7913, 7915, 7917, 7919, 7921, 7923, 7925, 7927, 7929}

\* the characters smart_trim strips from the right of the cut
TrimChars == {32, 46, 44, 45, 8211, 8212}

\* [,\|/;]
IsCsvSep(c) == c \in {44, 124, 47, 59}

(***************************************************************************)
(* String primitives                                                       *)
(***************************************************************************)
\* the character classes of the regexes and strip() calls, by name
InClass(cls, c) ==
    IF cls = "space" THEN IsSpace(c)                      \* \s, str.strip()
    ELSE IF cls = "hyphen" THEN c = HYPHEN                \* -
    ELSE IF cls = "trim" THEN c \in TrimChars             \* rstrip(" .,-...")
    ELSE IF cls = "slug" THEN IsSlugChar(c) \/ IsSpace(c) \/ c = HYPHEN
                                                          \* [a-z0-9\s-]
    ELSE IF cls = "word" THEN IsWordChar(c)
    ELSE IF cls = "letter" THEN IsLetter(c)
    ELSE IF cls = "vowel" THEN c \in VowelChars
    ELSE IF cls = "token" THEN ~IsCsvSep(c)               \* [^,\|/;]
    ELSE IF cls = "nonblank" THEN c # SP
    ELSE FALSE

\* s.lower()
LowerStr(s) == [i \in 1..Len(s) |-> Lower(s[i])]

\* s.translate(trans)
Translate(s) == [i \in 1..Len(s) |-> TransTable(s[i])]

\* len(re.findall(r'[cls]', s))
Count(s, cls) == Cardinality({i \in 1..Len(s) : InClass(cls, s[i])})

\* s.lstrip(cls) / s.rstrip(cls) / s.strip(cls)
LStripBy(s, cls) ==
    IF \A i \in 1..Len(s) : InClass(cls, s[i]) THEN <<>>
    ELSE LET f == CHOOSE i \in 1..Len(s) :
                      /\ ~InClass(cls, s[i])
                      /\ \A k \in 1..(i - 1) : InClass(cls, s[k])
         IN  SubSeq(s, f, Len(s))

RStripBy(s, cls) ==
    IF \A i \in 1..Len(s) : InClass(cls, s[i]) THEN <<>>
    ELSE LET l == CHOOSE i \in 1..Len(s) :
                      /\ ~InClass(cls, s[i])
                      /\ \A k \in (i + 1)..Len(s) : InClass(cls, s[k])
         IN  SubSeq(s, 1, l)

StripBy(s, cls) == RStripBy(LStripBy(s, cls), cls)

Strip(s) == StripBy(s, "space")

\* s.rfind(c), as a 1-based index; 0 when c does not occur
RFind(s, c) ==
    IF \E i \in 1..Len(s) : s[i] = c
    THEN CHOOSE i \in 1..Len(s) :
             s[i] = c /\ \A k \in (i + 1)..Len(s) : s[k] # c
    ELSE 0

\* re.sub(r'[^cls]', '', s)
Keep(s, cls) == LET in(c) == InClass(cls, c) IN SelectSeq(s, in)

\* re.sub(r'[cls]+', r, s): every maximal run of cls characters becomes r
CollapseRuns(s, cls, r) ==
    LET marked == [i \in 1..Len(s) |->
                      IF ~InClass(cls, s[i]) THEN s[i]
                      ELSE IF i > 1 /\ InClass(cls, s[i - 1]) THEN -1
                      ELSE r]
        kept(c) == c # -1
    IN  SelectSeq(marked, kept)

\* re.findall(r'[cls]+', s): the maximal runs of cls characters, in order
Runs(s, cls) ==
    LET idx == [i \in 1..Len(s) |-> i]
        isStart(i) == /\ InClass(cls, s[i])
                      /\ (i = 1 \/ ~InClass(cls, s[i - 1]))
        starts == SelectSeq(idx, isStart)
        endOf(i) == CHOOSE j \in i..Len(s) :
                        /\ \A k \in i..j : InClass(cls, s[k])
                        /\ (j = Len(s) \/ ~InClass(cls, s[j + 1]))
    IN  [n \in 1..Len(starts) |-> SubSeq(s, starts[n], endOf(starts[n]))]

\* sep.join(words)
RECURSIVE Join(_, _)
Join(words, sep) ==
    IF Len(words) = 0 THEN <<>>
    ELSE IF Len(words) = 1 THEN words[1]
    ELSE words[1] \o sep \o Join(Tail(words), sep)

\* needle in hay
Contains(hay, needle) ==
    \E i \in 1..(Len(hay) - Len(needle) + 1) :
        SubSeq(hay, i, i + Len(needle) - 1) = needle

(***************************************************************************)
(* Helpers (lines 21-65)                                                   *)
(***************************************************************************)
strip_vi_diacritics(s) ==
    IF Len(s) = 0 THEN <<>> ELSE Translate(LowerStr(s))

\* smart_trim cutting one character late
smart_trim_off_by_one(t0, max_len) ==
    LET t == Strip(t0)
    IN  IF Len(t) <= max_len THEN t
        ELSE LET cut0 == SubSeq(t, 1, max_len + 1)
                 last_space == RFind(cut0, SP)
                 cut == IF last_space # 0
                        THEN SubSeq(cut0, 1, last_space - 1) ELSE cut0
             IN  RStripBy(cut, "trim") \o <<ELLIPSIS>>

smart_trim(t0, max_len) ==
    LET t == Strip(t0)
    IN  IF Len(t) <= max_len THEN t
        ELSE LET cut0 == SubSeq(t, 1, max_len)
                 last_space == RFind(cut0, SP)
                 cut == IF last_space # 0
                        THEN SubSeq(cut0, 1, last_space - 1) ELSE cut0
             IN  RStripBy(cut, "trim") \o <<ELLIPSIS>>

\* slugify_vi collapsing the hyphens before it replaces the whitespace
slugify_vi_swapped(t0) ==
    LET t1 == Strip(strip_vi_diacritics(t0))
        t2 == Keep(t1, "slug")
        t3 == CollapseRuns(t2, "hyphen", HYPHEN)
        t4 == CollapseRuns(t3, "space", HYPHEN)
    IN  StripBy(t4, "hyphen")

slugify_vi(t0) ==
    LET t1 == Strip(strip_vi_diacritics(t0))
        t2 == Keep(t1, "slug")
        t3 == CollapseRuns(t2, "space", HYPHEN)
        t4 == CollapseRuns(t3, "hyphen", HYPHEN)
    IN  StripBy(t4, "hyphen")

MaxWords == 5

sanitize_focus_keyphrase(t0) ==
    LET words == Runs(Strip(t0), "word")
        capped == IF Len(words) > MaxWords THEN SubSeq(words, 1, MaxWords)
                  ELSE words
    IN  IF Len(words) = 0 THEN <<>>
        ELSE LowerStr(Join(capped, <<SP>>))

looks_like_gibberish(name) ==
    LET s == Strip(name)
        letters == Count(s, "letter")
        vowels == Count(s, "vowel")
        max1 == IF letters > 1 THEN letters ELSE 1
    IN  IF Len(s) = 0 THEN TRUE
        ELSE IF letters >= 6 /\ vowels * 100 < 18 * max1 THEN TRUE
        ELSE IF \E i \in 1..(Len(s) - 3) :
                    /\ s[i] # NEWLINE
                    /\ \A k \in 1..3 : s[i + k] = s[i]
             THEN TRUE
        ELSE IF Len(s) > 14 /\ ~(\E i \in 1..Len(s) : s[i] = SP) THEN TRUE
        ELSE FALSE

(***************************************************************************)
(* The service's raw text                                                  *)
(*                                                                         *)
(* The text the generative service returns is a sequence of lexical        *)
(* pieces: "{", "}", "[", "]", one "key": "value" member of an object      *)
(* (key one of the four field names or another name, value a string), or   *)
(* a stretch of prose (markdown fences, explanations) holding no brace.    *)
(***************************************************************************)
LB == [t |-> "lb", k |-> "", v |-> <<>>]
RB == [t |-> "rb", k |-> "", v |-> <<>>]
LSQ == [t |-> "lsq", k |-> "", v |-> <<>>]
RSQ == [t |-> "rsq", k |-> "", v |-> <<>>]
JUNK == [t |-> "junk", k |-> "", v |-> <<>>]
Pair(key, value) == [t |-> "pair", k |-> key, v |-> value]

\* the field names of the regex at line 103
ExpectedKeys == {"meta_description", "slug", "focus_keyphrase", "warning"}

NoData == [kind |-> "none", data |-> <<>>]

\* the dict json.loads builds from an object's members (a repeated key keeps
\* its last value)
DictOf(members) ==
    LET keys == {members[i].k : i \in 1..Len(members)}
        lastOf(key) == CHOOSE i \in 1..Len(members) :
                           /\ members[i].k = key
                           /\ \A j \in (i + 1)..Len(members) : members[j].k # key
    IN  [key \in keys |-> members[lastOf(key)].v]

IsObjectText(toks) ==
    /\ Len(toks) >= 2
    /\ toks[1].t = "lb"
    /\ toks[Len(toks)].t = "rb"
    /\ \A i \in 2..(Len(toks) - 1) : toks[i].t = "pair"

IsArrayText(toks) ==
    /\ Len(toks) >= 2
    /\ toks[1].t = "lsq"
    /\ toks[Len(toks)].t = "rsq"
    /\ (Len(toks) = 2 \/ IsObjectText(SubSeq(toks, 2, Len(toks) - 1)))

\* json.loads(text): kind "dict" (an object), "other" (a JSON value that is
\* no object) or "error" (it raised)
json_loads(toks) ==
    IF IsObjectText(toks)
    THEN [kind |-> "dict", data |-> DictOf(SubSeq(toks, 2, Len(toks) - 1))]
    ELSE IF IsArrayText(toks) THEN [kind |-> "other", data |-> <<>>]
    ELSE [kind |-> "error", data |-> <<>>]

\* re.search(r'\{\s*"(?:meta_description|slug|focus_keyphrase|warning)".*?\}',
\* text, flags=re.S): the matched pieces, or <<>> when nothing matches
regex_search(toks) ==
    LET opens(i) == /\ toks[i].t = "lb"
                    /\ i < Len(toks)
                    /\ toks[i + 1].t = "pair"
                    /\ toks[i + 1].k \in ExpectedKeys
                    /\ \E j \in (i + 1)..Len(toks) : toks[j].t = "rb"
    IN  IF \E i \in 1..Len(toks) : opens(i)
        THEN LET i == CHOOSE i \in 1..Len(toks) :
                          opens(i) /\ \A h \in 1..(i - 1) : ~opens(h)
                 j == CHOOSE j \in (i + 1)..Len(toks) :
                          /\ toks[j].t = "rb"
                          /\ \A h \in (i + 1)..(j - 1) : toks[h].t # "rb"
             IN  SubSeq(toks, i, j)
        ELSE <<>>

\* lines 99-106: data
parse_response(toks) ==
    LET first == json_loads(toks)
    IN  IF first.kind # "error" THEN first
        ELSE LET m == regex_search(toks)
                 second == json_loads(m)
             IN  IF Len(m) > 0 /\ second.kind # "error" THEN second
                 ELSE NoData

\* data.get(key, "")
DictGet(d, key) == IF key \in DOMAIN d THEN d[key] ELSE <<>>

\* x or y, for strings
OrElse(x, y) == IF Len(x) > 0 THEN x ELSE y

MetaBudget == 155

\* " chat luong, ben bi, hieu suat on dinh. Gia tot, giao nhanh, doi tra linh
\* hoat. Mua ngay!" (with its diacritics), the template of line 111
FallbackText ==
    <<32, 99, 104, 7845, 116, 32, 108, 432, 7907, 110, 103, 44, 32, 98, 7873,
      110, 32, 98, 7881, 44, 32, 104, 105, 7879, 117, 32, 115, 117, 7845, 116,
      32, 7893, 110, 32, 273, 7883, 110, 104, 46, 32, 71, 105, 225, 32, 116,
      7889, 116, 44, 32, 103, 105, 97, 111, 32, 110, 104, 97, 110, 104, 44, 32,
      273, 7893, 105, 32, 116, 114, 7843, 32, 108, 105, 110, 104, 32, 104, 111,
      7841, 116, 46, 32, 77, 117, 97, 32, 110, 103, 97, 121, 33>>

\* "gibberish_detected", "unknown_or_made_up", "llm_parse_error"
W_gibberish ==
    <<103, 105, 98, 98, 101, 114, 105, 115, 104, 95, 100, 101, 116, 101, 99,
      116, 101, 100>>
W_unknown ==
    <<117, 110, 107, 110, 111, 119, 110, 95, 111, 114, 95, 109, 97, 100, 101,
      95, 117, 112>>
W_parse_error ==
    <<108, 108, 109, 95, 112, 97, 114, 115, 101, 95, 101, 114, 114, 111, 114>>

\* the dict call_gemini returns; warning <<>> when it has no "warning" key
Out(w, m, s, k) ==
    [warning |-> w, meta_description |-> m, slug |-> s, focus_keyphrase |-> k]

WarningOut(w) == Out(w, <<>>, <<>>, <<>>)

\* gemini_result with the no_fallback test inverted
gemini_result_flag_inverted(product_name, no_fallback, toks) ==
    LET parsed == parse_response(toks)
        data == parsed.data
    IN  IF parsed.kind # "dict"
        THEN IF ~no_fallback THEN WarningOut(W_parse_error)
             ELSE Out(<<>>,
                      smart_trim(product_name \o FallbackText, MetaBudget),
                      slugify_vi(product_name),
                      sanitize_focus_keyphrase(product_name))
        ELSE IF Len(DictGet(data, "warning")) > 0
        THEN WarningOut(DictGet(data, "warning"))
        ELSE Out(<<>>,
                 smart_trim(DictGet(data, "meta_description"), MetaBudget),
                 slugify_vi(OrElse(DictGet(data, "slug"), product_name)),
                 sanitize_focus_keyphrase(
                     OrElse(DictGet(data, "focus_keyphrase"), product_name)))

\* gemini_result without the "or product_name" of lines 118-119
gemini_result_no_name_fallback(product_name, no_fallback, toks) ==
    LET parsed == parse_response(toks)
        data == parsed.data
    IN  IF parsed.kind # "dict"
        THEN IF no_fallback THEN WarningOut(W_parse_error)
             ELSE Out(<<>>,
                      smart_trim(product_name \o FallbackText, MetaBudget),
                      slugify_vi(product_name),
                      sanitize_focus_keyphrase(product_name))
        ELSE IF Len(DictGet(data, "warning")) > 0
        THEN WarningOut(DictGet(data, "warning"))
        ELSE Out(<<>>,
                 smart_trim(DictGet(data, "meta_description"), MetaBudget),
                 slugify_vi(DictGet(data, "slug")),
                 sanitize_focus_keyphrase(DictGet(data, "focus_keyphrase")))

\* lines 99-120: what call_gemini returns once the service returned `toks`
gemini_result(product_name, no_fallback, toks) ==
    LET parsed == parse_response(toks)
        data == parsed.data
    IN  IF parsed.kind # "dict"
        THEN IF no_fallback THEN WarningOut(W_parse_error)
             ELSE Out(<<>>,
                      smart_trim(product_name \o FallbackText, MetaBudget),
                      slugify_vi(product_name),
                      sanitize_focus_keyphrase(product_name))
        ELSE IF Len(DictGet(data, "warning")) > 0
        THEN WarningOut(DictGet(data, "warning"))
        ELSE Out(<<>>,
                 smart_trim(DictGet(data, "meta_description"), MetaBudget),
                 slugify_vi(OrElse(DictGet(data, "slug"), product_name)),
                 sanitize_focus_keyphrase(
                     OrElse(DictGet(data, "focus_keyphrase"), product_name)))

\* gemini_precall without the strict-mode gibberish return of lines 75-76
gemini_precall_no_gate(api_key, installed, strict, product_name) ==
    IF Len(api_key) = 0 THEN "raise_missing_key"
    ELSE IF ~installed THEN "raise_not_installed"
    ELSE "call"

\* lines 69-76: what call_gemini does before it reaches the service
gemini_precall(api_key, installed, strict, product_name) ==
    IF Len(api_key) = 0 THEN "raise_missing_key"
    ELSE IF ~installed THEN "raise_not_installed"
    ELSE IF strict /\ looks_like_gibberish(product_name) THEN "gibberish"
    ELSE "call"

(***************************************************************************)
(* Trends (lines 123-135)                                                  *)
(*                                                                         *)
(* A mean is kept as the pair <<sum, count>>.                              *)
(***************************************************************************)
RECURSIVE SumSeq(_)
SumSeq(s) == IF Len(s) = 0 THEN 0 ELSE s[1] + SumSeq(Tail(s))

NoSeries == <<-1>>

NoScore == [avg |-> <<0, 1>>, last |-> -1]

trends_score_single(series) ==
    IF Len(series) = 0 THEN [avg |-> <<0, 1>>, last |-> 0]
    ELSE [avg |-> <<SumSeq(series), Len(series)>>, last |-> series[Len(series)]]

\* line 288 without its test of the last value
trends_passed_avg_only(score, min_avg, min_last) ==
    score.avg[1] >= min_avg * score.avg[2]

\* line 288
trends_passed(score, min_avg, min_last) ==
    /\ score.avg[1] >= min_avg * score.avg[2]
    /\ score.last >= min_last

(***************************************************************************)
(* Whitelist (lines 234-243)                                               *)
(***************************************************************************)
\* line 235: the tokens of the comma/pipe/slash/semicolon separated list
whitelist_tokens(tokens_csv) ==
    LET runs == Runs(tokens_csv, "token")
        parts == [i \in 1..Len(runs) |-> Strip(runs[i])]
        nonEmpty(t) == Len(t) > 0
    IN  SelectSeq(parts, nonEmpty)

\* _require_match comparing for equality instead of containment
require_match_exact(name, tokens_csv) ==
    LET tokens == whitelist_tokens(tokens_csv)
        norm_text == strip_vi_diacritics(name)
    IN  /\ Len(tokens) > 0
        /\ \E i \in 1..Len(tokens) : strip_vi_diacritics(tokens[i]) = norm_text

\* the value _require_match returns
require_match(name, tokens_csv) ==
    LET tokens == whitelist_tokens(tokens_csv)
        norm_text == strip_vi_diacritics(name)
    IN  /\ Len(tokens) > 0
        /\ \E i \in 1..Len(tokens) :
               Contains(norm_text, strip_vi_diacritics(tokens[i]))

\* the messagebox _require_match shows when it returns False
require_match_dialog(tokens_csv) ==
    IF Len(whitelist_tokens(tokens_csv)) = 0
    THEN [title |-> "Thieu danh sach", text |-> "chua nhap danh sach"]
    ELSE [title |-> "Khong khop", text |-> "chua khop whitelist"]

\* the sequences of at most n elements of a set
RECURSIVE StringsUpTo(_, _)
StringsUpTo(alphabet, n) ==
    IF n = 0 THEN {<<>>}
    ELSE LET shorter == StringsUpTo(alphabet, n - 1)
         IN  shorter \cup {Append(x, c) : x \in shorter, c \in alphabet}

(***************************************************************************)
(* Inputs of the model                                                     *)
(***************************************************************************)
\* "Vo.t Yonex" (with its diacritics), "yonexxxx", "!!!", "  "
NameGood == <<86, 7907, 116, 32, 89, 111, 110, 101, 120>>
NameRepeated == <<121, 111, 110, 101, 120, 120, 120, 120>>
NamePunct == <<33, 33, 33>>
NameBlank == <<32, 32>>

\* what the user may type into the product-name entry
NameInputs == {NameGood, NameRepeated, NamePunct, NameBlank}

\* "k", and the empty entry
ApiKeys == {<<107>>, <<>>}

\* "yonex, lining" and "vot, giay" (shortened defaults of lines 156 and 158),
\* and " ; ", a list without any token
BrandsCsv == <<121, 111, 110, 101, 120, 44, 32, 108, 105, 110, 105, 110, 103>>
CatsCsv == <<118, 111, 116, 44, 32, 103, 105, 97, 121>>
EmptyCsv == <<32, 59, 32>>

\* the (min_avg, min_last) entries: the defaults of lines 164-165, and zeros
Thresholds == {<<1, 1>>, <<0, 0>>}

\* the widget values on_generate reads, besides the product name
Requests ==
    {r \in [api : ApiKeys, strict : BOOLEAN, no_fallback : BOOLEAN,
            require_brand : BOOLEAN, brands : {BrandsCsv, EmptyCsv},
            require_cat : BOOLEAN, cats : {CatsCsv, EmptyCsv},
            validate_trends : BOOLEAN, min : Thresholds] :
        /\ (~r.require_brand => r.brands = BrandsCsv)
        /\ (~r.require_cat => r.cats = CatsCsv)
        /\ (~r.validate_trends => r.min = <<1, 1>>)}

NoRequest ==
    [api |-> <<>>, strict |-> FALSE, no_fallback |-> FALSE,
     require_brand |-> FALSE, brands |-> <<>>, require_cat |-> FALSE,
     cats |-> <<>>, validate_trends |-> FALSE, min |-> <<0, 0>>,
     name |-> <<>>]

\* "A" * 200; "Ex Ample!!"; "one two three four five six"; "Mua ngay. Giao
\* nhanh"; "!!!"; "other_kind"
LongMeta == [i \in 1..200 |-> 65]
SlugRaw == <<69, 120, 32, 65, 109, 112, 108, 101, 33, 33>>
KeyRaw ==
    <<111, 110, 101, 32, 116, 119, 111, 32, 116, 104, 114, 101, 101, 32, 102,
      111, 117, 114, 32, 102, 105, 118, 101, 32, 115, 105, 120>>
ShortMeta ==
    <<77, 117, 97, 32, 110, 103, 97, 121, 46, 32, 71, 105, 97, 111, 32, 110,
      104, 97, 110, 104>>
PunctRaw == <<33, 33, 33>>
W_other == <<111, 116, 104, 101, 114, 95, 107, 105, 110, 100>>

\* the raw texts the generative service may return
ServiceTexts ==
    { \* a clean JSON object
      <<LB, Pair("meta_description", LongMeta), Pair("slug", SlugRaw),
        Pair("focus_keyphrase", KeyRaw), RB>>,
      \* the object inside a markdown fence
      <<JUNK, LB, Pair("meta_description", ShortMeta), Pair("slug", SlugRaw),
        Pair("focus_keyphrase", KeyRaw), RB, JUNK>>,
      \* an object holding the description only
      <<LB, Pair("meta_description", ShortMeta), RB>>,
      \* an object holding the slug only
      <<LB, Pair("slug", SlugRaw), RB>>,
      \* fields that sanitize to nothing
      <<LB, Pair("meta_description", ShortMeta), Pair("slug", PunctRaw),
        Pair("focus_keyphrase", PunctRaw), RB>>,
      \* the strict-mode sentinel
      <<LB, Pair("warning", W_unknown), Pair("meta_description", <<>>),
        Pair("slug", <<>>), Pair("focus_keyphrase", <<>>), RB>>,
      \* a warning of another kind, with content beside it
      <<LB, Pair("warning", W_other), Pair("slug", SlugRaw), RB>>,
      \* prose only
      <<JUNK>>,
      \* an object the regex finds, broken by prose inside it
      <<JUNK, LB, Pair("slug", SlugRaw), JUNK, RB>>,
      \* a JSON array holding the object
      <<LSQ, LB, Pair("slug", SlugRaw), RB, RSQ>> }

\* the interest-over-time column the trend service may return: an empty
\* frame, or at most MaxSeriesLen weekly values
TrendValues == {0, 1, 3}
MaxSeriesLen == 2
TrendSeries == StringsUpTo(TrendValues, MaxSeriesLen)

(***************************************************************************)
(* MiniGUI                                                                 *)
(***************************************************************************)
NoDialog == [title |-> "", text |-> ""]

Status(t) == [text |-> t, avg |-> <<0, 1>>, last |-> 0, need |-> <<0, 0>>]

\* self.status.get().startswith("Trends")
StartsWithTrends(st) == st.text \in {"Trends FAIL", "Trends PASS"}

harness_idle == arg = <<>> /\ step = 0 /\ val = <<>>

\* __init__ (lines 139-171)
Init ==
    /\ pc = "idle"
    /\ genai_installed \in BOOLEAN
    /\ name_var = <<>>
    /\ meta_var = <<>>
    /\ slug_var = <<>>
    /\ key_var = <<>>
    /\ status = Status("Ready.")
    /\ req = NoRequest
    /\ text = <<>>
    /\ warn = <<>>
    /\ df = NoSeries
    /\ sc = NoScore
    /\ dialog = NoDialog
    /\ gemini_calls = 0
    /\ trends_calls = 0
    /\ harness_idle

\* the user types into the product-name entry
edit_name(n) ==
    /\ pc = "idle"
    /\ n # name_var
    /\ name_var' = n
    /\ UNCHANGED <<pc, genai_installed, meta_var, slug_var, key_var, status,
                   req, text, warn, df, sc, dialog, gemini_calls, trends_calls,
                   arg, step, val>>

\* lines 262-297 of on_generate, from the dict `out` that call_gemini returned
\* up to the return or the call of the trend service
after_gemini(out) ==
    /\ warn' = out.warning
    /\ meta_var' = out.meta_description
    /\ slug_var' = out.slug
    /\ key_var' = out.focus_keyphrase
    /\ df' = df
    /\ sc' = sc
    /\ IF out.warning = W_gibberish
       THEN /\ status' = Status("Phat hien ten co ve bia/khong hop le")
            /\ dialog' = [title |-> "Strict mode", text |-> "gibberish"]
            /\ pc' = "returned"
            /\ trends_calls' = trends_calls
       ELSE IF out.warning = W_unknown
       THEN /\ status' = Status("Gemini bao unknown/made-up")
            /\ dialog' = [title |-> "Strict mode", text |-> "khong nhan dien duoc"]
            /\ pc' = "returned"
            /\ trends_calls' = trends_calls
       ELSE IF out.warning = W_parse_error
       THEN /\ status' = Status("Khong parse duoc JSON va No fallback dang bat")
            /\ dialog' = [title |-> "No fallback", text |-> "sai dinh dang JSON"]
            /\ pc' = "returned"
            /\ trends_calls' = trends_calls
       ELSE IF req'.validate_trends
       THEN IF Len(Strip(out.focus_keyphrase)) = 0
            THEN /\ status' = status
                 /\ dialog' = [title |-> "Trends", text |-> "Khong co Focus keyphrase"]
                 /\ pc' = "returned"
                 /\ trends_calls' = trends_calls
            ELSE /\ status' = status
                 /\ dialog' = dialog
                 /\ pc' = "trends"
                 /\ trends_calls' = trends_calls + 1
       ELSE /\ status' = IF StartsWithTrends(status) THEN status
                         ELSE Status("Da sinh ket qua.")
            /\ dialog' = dialog
            /\ pc' = "returned"
            /\ trends_calls' = trends_calls

\* on_generate returns at once, having shown messagebox d
return_early(d, st) ==
    /\ dialog' = d
    /\ status' = st
    /\ pc' = "returned"
    /\ UNCHANGED <<meta_var, slug_var, key_var, warn, df, sc, gemini_calls,
                   trends_calls>>

\* on_generate, lines 245-258, with call_gemini up to line 96: from the click
\* to the first return or to the call of the generative service
on_generate(r) ==
    LET api == Strip(r.api)
        name == Strip(name_var)
    IN
    /\ pc = "idle"
    /\ req' = [api |-> api, strict |-> r.strict, no_fallback |-> r.no_fallback,
               require_brand |-> r.require_brand, brands |-> r.brands,
               require_cat |-> r.require_cat, cats |-> r.cats,
               validate_trends |-> r.validate_trends, min |-> r.min,
               name |-> name]
    /\ IF Len(name) = 0
       THEN return_early([title |-> "Thieu ten", text |-> "Nhap Ten san pham"],
                         status)
       ELSE IF r.require_brand /\ ~require_match(name, r.brands)
       THEN return_early([title |-> require_match_dialog(r.brands).title,
                          text |-> "BRAND"],
                         Status("Khong dat yeu cau BRAND."))
       ELSE IF r.require_cat /\ ~require_match(name, r.cats)
       THEN return_early([title |-> require_match_dialog(r.cats).title,
                          text |-> "CATEGORY"],
                         Status("Khong dat yeu cau CATEGORY."))
       ELSE LET pre == gemini_precall(api, genai_installed, r.strict, name)
            IN  IF pre = "raise_missing_key"
                THEN return_early([title |-> "AI Error", text |-> "Thieu API key."],
                                  status)
                ELSE IF pre = "raise_not_installed"
                THEN return_early([title |-> "AI Error",
                                   text |-> "Chua cai google-generativeai"],
                                  status)
                ELSE IF pre = "gibberish"
                THEN /\ after_gemini(WarningOut(W_gibberish))
                     /\ gemini_calls' = gemini_calls
                ELSE /\ pc' = "gemini"
                     /\ gemini_calls' = gemini_calls + 1
                     /\ UNCHANGED <<meta_var, slug_var, key_var, status, warn,
                                    df, sc, dialog, trends_calls>>
    /\ UNCHANGED <<genai_installed, name_var, text, arg, step, val>>

\* a handler that calls the generative service again after it raised
gemini_raises_retry ==
    /\ pc = "gemini"
    /\ gemini_calls < 2
    /\ gemini_calls' = gemini_calls + 1
    /\ UNCHANGED <<pc, genai_installed, name_var, meta_var, slug_var, key_var,
                   status, req, text, warn, df, sc, dialog, trends_calls,
                   arg, step, val>>

\* the generative service raises (lines 78-97); on_generate, lines 259-260
gemini_raises ==
    /\ pc = "gemini"
    /\ dialog' = [title |-> "AI Error", text |-> "service"]
    /\ pc' = "returned"
    /\ UNCHANGED <<genai_installed, name_var, meta_var, slug_var, key_var,
                   status, req, text, warn, df, sc, gemini_calls, trends_calls,
                   arg, step, val>>

\* the generative service returns raw text; call_gemini, lines 97-120, and
\* on_generate up to its return or to the call of the trend service
gemini_returns(toks) ==
    /\ pc = "gemini"
    /\ text' = toks
    /\ req' = req
    /\ after_gemini(gemini_result(req.name, req.no_fallback, toks))
    /\ UNCHANGED <<genai_installed, name_var, gemini_calls, arg, step, val>>

\* the trend service raises (lines 124-131); on_generate, lines 285-286
trends_raises ==
    /\ pc = "trends"
    /\ dialog' = [title |-> "Trends Error", text |-> "service"]
    /\ pc' = "returned"
    /\ UNCHANGED <<genai_installed, name_var, meta_var, slug_var, key_var,
                   status, req, text, warn, df, sc, gemini_calls, trends_calls,
                   arg, step, val>>

\* the trend service returns a series; trends_score_single, lines 132-135,
\* and on_generate, lines 288-297
trends_returns(series) ==
    LET score == trends_score_single(series)
    IN
    /\ pc = "trends"
    /\ df' = series
    /\ sc' = score
    /\ IF ~trends_passed(score, req.min[1], req.min[2])
       THEN /\ meta_var' = <<>>
            /\ slug_var' = <<>>
            /\ key_var' = <<>>
            /\ status' = [text |-> "Trends FAIL", avg |-> score.avg,
                          last |-> score.last, need |-> req.min]
            /\ dialog' = [title |-> "Trends FAIL", text |-> "khong dat nguong"]
       ELSE /\ status' = [text |-> "Trends PASS", avg |-> score.avg,
                          last |-> score.last, need |-> <<0, 0>>]
            /\ dialog' = dialog
            /\ UNCHANGED <<meta_var, slug_var, key_var>>
    /\ pc' = "returned"
    /\ UNCHANGED <<genai_installed, name_var, req, text, warn, gemini_calls,
                   trends_calls, arg, step, val>>

\* on_generate has returned: control is back in app.mainloop() (line 317) and
\* the handler's locals are gone
mainloop ==
    /\ pc = "returned"
    /\ pc' = "idle"
    /\ req' = NoRequest
    /\ text' = <<>>
    /\ warn' = <<>>
    /\ df' = NoSeries
    /\ sc' = NoScore
    /\ dialog' = NoDialog
    /\ gemini_calls' = 0
    /\ trends_calls' = 0
    /\ UNCHANGED <<genai_installed, name_var, meta_var, slug_var, key_var,
                   status, arg, step, val>>

\* clear_all (lines 310-313)
clear_all ==
    /\ pc = "idle"
    /\ name_var' = <<>>
    /\ meta_var' = <<>>
    /\ slug_var' = <<>>
    /\ key_var' = <<>>
    /\ status' = Status("Cleared.")
    /\ UNCHANGED <<pc, genai_installed, req, text, warn, df, sc, dialog,
                   gemini_calls, trends_calls, arg, step, val>>

Next ==
    \/ \E n \in NameInputs : edit_name(n)
    \/ \E r \in Requests : on_generate(r)
    \/ gemini_raises
    \/ \E toks \in ServiceTexts : gemini_returns(toks)
    \/ trends_raises
    \/ \E series \in TrendSeries : trends_returns(series)
    \/ mainloop
    \/ clear_all

Spec == Init /\ [][Next]_vars

(***************************************************************************)
(* Harnesses for the pure helpers: the input is drawn in the initial       *)
(* state and the helper is applied to it.                                  *)
(***************************************************************************)
gui_idle ==
    /\ pc = "harness"
    /\ genai_installed = TRUE
    /\ name_var = <<>>
    /\ meta_var = <<>>
    /\ slug_var = <<>>
    /\ key_var = <<>>
    /\ status = Status("Ready.")
    /\ req = NoRequest
    /\ text = <<>>
    /\ warn = <<>>
    /\ df = NoSeries
    /\ sc = NoScore
    /\ dialog = NoDialog
    /\ gemini_calls = 0
    /\ trends_calls = 0

gui_unchanged ==
    UNCHANGED <<pc, genai_installed, name_var, meta_var, slug_var, key_var,
                status, req, text, warn, df, sc, dialog, gemini_calls,
                trends_calls>>

\* 'a', '1', 'D-stroke', 'O-horn-dot' (capital), ' ', tab, '-', '!'
SlugAlphabet == {97, 49, 272, 7906, 32, 9, 45, 33}
MaxSlugLen == 4

InitSlug ==
    /\ gui_idle
    /\ arg \in StringsUpTo(SlugAlphabet, MaxSlugLen)
    /\ step = 0
    /\ val = <<>>

\* slugify_vi of the input, then slugify_vi of that result
apply_slugify ==
    /\ pc = "harness"
    /\ step < 2
    /\ val' = Append(val, slugify_vi(IF step = 0 THEN arg ELSE val[step]))
    /\ step' = step + 1
    /\ arg' = arg
    /\ gui_unchanged

SpecSlug == InitSlug /\ [][apply_slugify]_vars

\* "VO.T", "CA`U", "LONG" (capitals with diacritics), "vo.t", "yonex",
\* "xkcd", "zzzz", " "
NameChunks ==
    {<<86, 7906, 84>>, <<67, 7846, 85>>, <<76, 212, 78, 71>>,
     <<118, 7907, 116>>, <<121, 111, 110, 101, 120>>, <<120, 107, 99, 100>>,
     <<122, 122, 122, 122>>, <<32>>}
MaxChunks == 4

RECURSIVE ChunkedUpTo(_)
ChunkedUpTo(n) ==
    IF n = 0 THEN {<<>>}
    ELSE LET shorter == ChunkedUpTo(n - 1)
         IN  shorter \cup {x \o c : x \in shorter, c \in NameChunks}

\* call_gemini receives the entry's text stripped, and never empty
InitGibberish ==
    /\ gui_idle
    /\ arg \in {n \in ChunkedUpTo(MaxChunks) : Len(n) > 0 /\ Strip(n) = n}
    /\ step = 0
    /\ val = <<>>

apply_gibberish ==
    /\ pc = "harness"
    /\ step = 0
    /\ val' = <<looks_like_gibberish(arg)>>
    /\ step' = 1
    /\ arg' = arg
    /\ gui_unchanged

SpecGibberish == InitGibberish /\ [][apply_gibberish]_vars

(***************************************************************************)
(* Reading a request's outcome off the GUI                                 *)
(***************************************************************************)
Returned == pc = "returned"

\* the request's outcome, from the messagebox shown and out.get("warning")
Outcome ==
    IF pc # "returned" THEN "Running"
    ELSE IF dialog.title = "Thieu ten" THEN "MissingName"
    ELSE IF dialog.title \in {"Thieu danh sach", "Khong khop"}
    THEN "WhitelistMismatch"
    ELSE IF dialog.title \in {"AI Error", "Trends Error"} THEN "Failure"
    ELSE IF dialog.title = "Strict mode" /\ dialog.text = "gibberish"
    THEN "GibberishDetected"
    ELSE IF dialog.title = "Strict mode" THEN "UnknownOrMadeUp"
    ELSE IF dialog.title = "No fallback" THEN "ParseError"
    ELSE IF dialog.title = "Trends FAIL" THEN "TrendsBelowThreshold"
    ELSE IF Len(warn) > 0 THEN "CarriedWarning"
    ELSE IF dialog.title = "Trends" THEN "NoKeyphrase"
    ELSE "Success"

WarningOutcomes ==
    {"GibberishDetected", "UnknownOrMadeUp", "CarriedWarning", "ParseError",
     "WhitelistMismatch", "TrendsBelowThreshold"}

FieldsEmpty == meta_var = <<>> /\ slug_var = <<>> /\ key_var = <<>>

\* the generative service was called and returned
GeminiReturned ==
    /\ pc \in {"trends", "returned"}
    /\ gemini_calls = 1
    /\ dialog.title # "AI Error"

\* ... and the trend gate has not acted on the fields yet
FreshFromGemini == GeminiReturned /\ df = NoSeries

\* the whitelist checks of the request pass or are disabled
WhitelistOk ==
    /\ (req.require_brand => require_match(req.name, req.brands))
    /\ (req.require_cat => require_match(req.name, req.cats))

\* ^[a-z0-9]+(-[a-z0-9]+)*$
SlugShape(s) ==
    /\ Len(s) > 0
    /\ \A i \in 1..Len(s) : IsSlugChar(s[i]) \/ s[i] = HYPHEN
    /\ s[1] # HYPHEN
    /\ s[Len(s)] # HYPHEN
    /\ \A i \in 1..(Len(s) - 1) : ~(s[i] = HYPHEN /\ s[i + 1] = HYPHEN)

\* the words of a keyphrase: it is those words joined by single spaces
KeyWords(s) == Runs(s, "nonblank")

KeyphraseShape(s, least) ==
    /\ s = Join(KeyWords(s), <<SP>>)
    /\ Len(KeyWords(s)) >= least
    /\ Len(KeyWords(s)) <= MaxWords
    /\ \A i \in 1..Len(s) : Lower(s[i]) = s[i]

(***************************************************************************)
(* C1                                                                      *)
(***************************************************************************)
StrictGibberishRequest ==
    /\ pc \in {"gemini", "trends", "returned"}
    /\ req.strict
    /\ looks_like_gibberish(req.name)
    /\ WhitelistOk

\* C1 (as claimed): a request in strict mode whose product name is gibberish,
\* whatever the credential state, with the whitelist checks passing or
\* disabled, never invokes the generative service and ends in
\* Warning{GibberishDetected}.
C1_GibberishAlwaysWarns ==
    StrictGibberishRequest =>
        /\ Returned
        /\ gemini_calls = 0
        /\ Outcome = "GibberishDetected"

\* C1 (amended): such a request never invokes the generative service; it ends
\* in Warning{GibberishDetected} when the name is not blank, the API key is
\* not empty and the client library imports, in a Failure when the name is
\* not blank and the key or the library is missing, and in the missing-name
\* warning when the name is blank.
C1_GibberishNeverCalls ==
    StrictGibberishRequest =>
        /\ Returned
        /\ gemini_calls = 0
        /\ trends_calls = 0
        /\ Outcome = IF Len(req.name) = 0 THEN "MissingName"
                     ELSE IF Len(req.api) = 0 \/ ~genai_installed THEN "Failure"
                     ELSE "GibberishDetected"
        /\ (Outcome = "GibberishDetected" => FieldsEmpty)

C1_Witness ==
    /\ StrictGibberishRequest
    /\ req.name = NameRepeated
    /\ req.require_brand
    /\ Outcome = "GibberishDetected"
    /\ gemini_calls = 0

(***************************************************************************)
(* C2                                                                      *)
(***************************************************************************)
\* C2: whenever the latest request ended in a Warning, the three content
\* fields on display are empty: no content of this or of an earlier request
\* is shown with a Warning.
C2_WarningShowsNoContent ==
    (Returned /\ Outcome \in WarningOutcomes) => FieldsEmpty

(***************************************************************************)
(* C3                                                                      *)
(***************************************************************************)
\* call_gemini returned a dict without a warning
EarlierSuccess == GeminiReturned /\ Len(warn) = 0

GeminiOut == gemini_result(req.name, req.no_fallback, text)

FieldsAre(out) ==
    /\ meta_var = out.meta_description
    /\ slug_var = out.slug
    /\ key_var = out.focus_keyphrase

\* average >= minAverage and last >= minLast for the series; an empty series
\* counts as average 0.0 and last 0
SeriesMeets(series, min) ==
    IF Len(series) = 0 THEN 0 >= min[1] /\ 0 >= min[2]
    ELSE /\ SumSeq(series) >= min[1] * Len(series)
         /\ series[Len(series)] >= min[2]

DecidedByTrendSample ==
    /\ trends_calls = 1
    /\ df # NoSeries
    /\ IF SeriesMeets(df, req.min)
       THEN Outcome = "Success" /\ FieldsAre(GeminiOut)
       ELSE Outcome = "TrendsBelowThreshold" /\ FieldsEmpty

TrendsRequestDone ==
    /\ Returned
    /\ req.validate_trends
    /\ EarlierSuccess
    /\ dialog.title # "Trends Error"

\* C3 (as claimed): with trend validation enabled and a Success from the
\* earlier stages, the trend sample alone decides: the fields are retained
\* when the sample meets both thresholds, and otherwise the outcome is
\* Warning{TrendsBelowThreshold} with the three fields empty.
C3_TrendSampleDecides == TrendsRequestDone => DecidedByTrendSample

\* C3 (amended): the same, for a Success whose focus keyphrase is not empty
\* and a trend service that returns; when the keyphrase is empty the trend
\* service is not invoked and the fields are kept as they are.
C3_TrendSampleDecidesKeyphrase ==
    TrendsRequestDone =>
        IF Len(GeminiOut.focus_keyphrase) > 0 THEN DecidedByTrendSample
        ELSE /\ trends_calls = 0
             /\ Outcome = "NoKeyphrase"
             /\ FieldsAre(GeminiOut)

C3_Witness ==
    /\ TrendsRequestDone
    /\ df = <<3, 0>>
    /\ req.min = <<1, 1>>
    /\ Len(GeminiOut.slug) > 0
    /\ Outcome = "TrendsBelowThreshold"
    /\ FieldsEmpty

(***************************************************************************)
(* C4                                                                      *)
(***************************************************************************)
\* the token list is not empty and some folded token is a substring of the
\* folded name
TokensMatch(name, csv) ==
    LET tokens == whitelist_tokens(csv)
    IN  /\ Len(tokens) > 0
        /\ \E i \in 1..Len(tokens) :
               Contains(strip_vi_diacritics(name), strip_vi_diacritics(tokens[i]))

EndsInMismatch(label) ==
    /\ Returned
    /\ Outcome = "WhitelistMismatch"
    /\ dialog.text = label
    /\ gemini_calls = 0
    /\ trends_calls = 0

NeitherParseYieldsObject(toks) ==
    /\ json_loads(toks).kind # "dict"
    /\ json_loads(regex_search(toks)).kind # "dict"

\* C5: when neither the strict parse nor the substring parse of the raw text
\* yields an object, the result is Warning{ParseError} with empty content
\* under no-fallback, and otherwise a Success whose three fields are the
\* sanitized template description, slug and keyphrase of the product name.
C5_ParseFailure ==
    (FreshFromGemini /\ NeitherParseYieldsObject(text)) =>
        IF req.no_fallback
        THEN /\ Outcome = "ParseError"
             /\ FieldsEmpty
             /\ trends_calls = 0
        ELSE /\ Len(warn) = 0
             /\ Outcome \in {"Running", "Success", "NoKeyphrase", "Failure"}
             /\ meta_var = smart_trim(req.name \o FallbackText, MetaBudget)
             /\ slug_var = slugify_vi(req.name)
             /\ key_var = sanitize_focus_keyphrase(req.name)
             /\ Len(meta_var) <= MetaBudget + 1
             /\ (Len(slug_var) = 0 \/ SlugShape(slug_var))
             /\ KeyphraseShape(key_var, 0)

C5_Witness ==
    /\ FreshFromGemini
    /\ text = <<JUNK>>
    /\ ~req.no_fallback
    /\ req.name = NameGood
    /\ Len(slug_var) > 0
    /\ Len(meta_var) > Len(FallbackText)

(***************************************************************************)
(* C6                                                                      *)
(***************************************************************************)
\* C6 (as claimed): every Success has a description of at most 155
\* characters, a slug matching ^[a-z0-9]+(-[a-z0-9]+)*$ and a keyphrase of 1
\* to 5 lowercase words.
C6_SuccessShape ==
    Outcome = "Success" =>
        /\ Len(meta_var) <= MetaBudget
        /\ SlugShape(slug_var)
        /\ KeyphraseShape(key_var, 1)

\* C6 (amended): every Success has a description of at most 156 characters
\* (155 and the ellipsis), a slug that is empty or matches
\* ^[a-z0-9]+(-[a-z0-9]+)*$, and a keyphrase of 0 to 5 lowercase words.
C6_SuccessShapeLoose ==
    Outcome = "Success" =>
        /\ Len(meta_var) <= MetaBudget + 1
        /\ (Len(meta_var) = MetaBudget + 1 => meta_var[Len(meta_var)] = ELLIPSIS)
        /\ (Len(slug_var) = 0 \/ SlugShape(slug_var))
        /\ KeyphraseShape(key_var, 0)

C6_Witness ==
    /\ Outcome = "Success"
    /\ Len(meta_var) = MetaBudget + 1
    /\ SlugShape(slug_var)
    /\ Len(KeyWords(key_var)) = MaxWords

(***************************************************************************)
(* C7                                                                      *)
(***************************************************************************)
\* C7: within one request each service is invoked at most once, never again
\* after a failure or a warning; the trend service is invoked only after the
\* generative call returned and its result was parsed and sanitized into a
\* result without a warning; a failing call of either service ends the
\* request as a Failure.
C7_SingleAttempt ==
    /\ gemini_calls <= 1
    /\ trends_calls <= 1
    /\ (pc = "idle" => gemini_calls = 0 /\ trends_calls = 0)
    \* while the generative call is pending nothing else has been invoked
    /\ (pc = "gemini" => gemini_calls = 1 /\ trends_calls = 0 /\ text = <<>>)
    \* the trend service is invoked once the generative call has returned and
    \* its result was parsed and sanitized into a result without a warning
    /\ (pc = "trends" => trends_calls = 1 /\ df = NoSeries)
    /\ (trends_calls = 1 =>
           /\ gemini_calls = 1
           /\ text \in ServiceTexts
           /\ Len(warn) = 0
           /\ Len(GeminiOut.warning) = 0
           /\ Len(GeminiOut.focus_keyphrase) > 0
           /\ (df = NoSeries => FieldsAre(GeminiOut)))
    \* a warning ends the request with no further invocation
    /\ (Outcome \in WarningOutcomes \ {"TrendsBelowThreshold"} =>
           trends_calls = 0)
    \* a failing call ends the request as a Failure
    /\ (dialog.title \in {"AI Error", "Trends Error"} =>
           Returned /\ Outcome = "Failure")
    /\ (dialog.title = "AI Error" =>
           trends_calls = 0 /\ text = <<>> /\ df = NoSeries)
    /\ (dialog.title = "Trends Error" => df = NoSeries)

C7_Witness ==
    /\ Returned
    /\ gemini_calls = 1
    /\ trends_calls = 1
    /\ dialog.title = "Trends Error"

(***************************************************************************)
(* C8                                                                      *)
(***************************************************************************)
\* C8: slugify_vi is idempotent: applied to its own result it returns that
\* result.
C8_SlugIdempotent == step = 2 => val[2] = val[1]

C8_Witness ==
    /\ step = 2
    /\ val[1] # arg
    /\ Len(val[1]) >= 3
    /\ \E i \in 1..Len(val[1]) : val[1][i] = HYPHEN
    /\ \E i \in 1..Len(arg) : arg[i] = 7906

(***************************************************************************)
(* C9                                                                      *)
(***************************************************************************)
ParsedData == parse_response(text).data

ParsedWithoutWarning ==
    /\ FreshFromGemini
    /\ parse_response(text).kind = "dict"
    /\ Len(DictGet(ParsedData, "warning")) = 0

\* C9 (as claimed): when the parsed object carries no warning, each of
\* meta_description, slug and focus_keyphrase that is absent from it is
\* replaced by the product name before sanitization.
C9_AbsentFieldsUseName ==
    ParsedWithoutWarning =>
        /\ ("meta_description" \notin DOMAIN ParsedData =>
               meta_var = smart_trim(req.name, MetaBudget))
        /\ ("slug" \notin DOMAIN ParsedData => slug_var = slugify_vi(req.name))
        /\ ("focus_keyphrase" \notin DOMAIN ParsedData =>
               key_var = sanitize_focus_keyphrase(req.name))

\* C9 (amended): when the parsed object carries no warning, an absent slug or
\* focus_keyphrase is replaced by the product name before sanitization, and
\* an absent meta_description gives an empty description.
C9_AbsentSlugAndKeyUseName ==
    ParsedWithoutWarning =>
        /\ ("meta_description" \notin DOMAIN ParsedData => meta_var = <<>>)
        /\ ("slug" \notin DOMAIN ParsedData => slug_var = slugify_vi(req.name))
        /\ ("focus_keyphrase" \notin DOMAIN ParsedData =>
               key_var = sanitize_focus_keyphrase(req.name))

C9_Witness ==
    /\ ParsedWithoutWarning
    /\ DOMAIN ParsedData = {"meta_description"}
    /\ req.name = NameGood
    /\ slug_var = slugify_vi(NameGood)
    /\ Len(key_var) > 0

(***************************************************************************)
(* C10                                                                     *)
(***************************************************************************)
\* isGibberish as the claim words it
GibberishAsClaimed(name) ==
    LET letters == Count(name, "letter")
        vowels == Count(LowerStr(name), "vowel")
    IN  \/ Len(name) = 0
        \/ letters >= 6 /\ vowels * 100 < 18 * letters
        \/ \E i \in 1..(Len(name) - 3) : \A k \in 1..3 : name[i + k] = name[i]
        \/ Len(name) > 14 /\ \A i \in 1..Len(name) : ~IsSpace(name[i])

\* C10: looks_like_gibberish(name) is true exactly when the name is empty, or
\* has 6 or more letters with a vowel ratio (vowels counted in either case)
\* below 0.18, or has a character 4 or more times in a row, or is longer than
\* 14 characters without any whitespace.
C10_GibberishExactly == step = 1 => val[1] = GibberishAsClaimed(arg)

====
